---- MODULE Spec2Model ----
(***************************************************************************)
(* Model of ortools/routing/samples/cvrptw_soft_capacity.cc: the main()    *)
(* of the soft-capacitated VRP with time windows sample.  main() reads     *)
(* its flags, checks them, builds a routing model step by step (index      *)
(* manager, arc costs, Capacity dimension with soft upper bounds, Time     *)
(* dimension, time windows, disjunctions, same-vehicle groups), parses the *)
(* search parameters, calls the solver and reports.                        *)
(*                                                                         *)
(* The routing library itself (RoutingIndexManager, RoutingModel,          *)
(* RandomDemand, the solver) is not part of the sample; the little of it   *)
(* the properties need is modelled from the design document and marked so. *)
(***************************************************************************)
EXTENDS Integers, Sequences, FiniteSets, TLC

VARIABLES
    flags,          \* the command line flags (ABSL_FLAG), fixed at start
    pc,             \* position of main()
    fatal,          \* which CHECK failed ("none" while running)
    manager,        \* RoutingIndexManager: [num_nodes, num_vehicles, depot]
    locations,      \* number of locations added to the LocationContainer
    arc_cost,       \* arc cost evaluator of all vehicles
    demand,         \* RandomDemand::demand_, node -> demand
    dims,           \* dimensions declared with AddDimension, in order
    soft_bounds,    \* SetCumulVarSoftUpperBound calls on Capacity, in order
    randomizer,     \* state of the std::mt19937 used for the time windows
    windows,        \* index -> [lo, hi] set with CumulVar(index)->SetRange
    disjunctions,   \* AddDisjunction calls, in order
    same_vehicle,   \* AddSoftSameVehicleConstraint calls, in order
    solution,       \* what SolveWithParameters returned
    output,         \* what main() reported: the plan, or "No solution found."
    steps           \* the configuration steps performed so far, in order

vars == <<flags, pc, fatal, manager, locations, arc_cost, demand, dims,
          soft_bounds, randomizer, windows, disjunctions, same_vehicle,
          solution, output, steps>>

model_vars == <<manager, locations, arc_cost, demand, dims, soft_bounds,
                windows, disjunctions, same_vehicle>>

\* What the RoutingModel holds.
routing_vars == <<arc_cost, dims, soft_bounds, windows, disjunctions,
                  same_vehicle>>

-----------------------------------------------------------------------------
(* Bounds of the model.                                                    *)

MaxOrders == 3
MaxVehicles == 2
MaxCap == 3
MaxDemand == 2
MaxGroupOrders == 21

(* Program constants.                                                      *)

kMaxNodesPerGroup == 10
kSameVehicleCost == 1000
kDepot == 0
kNullCapacitySlack == 0
kHorizon == 24 * 3600
kTWDuration == 5 * 3600
kPenalty == 10000000
kFirstNodeAfterDepot == 1

None == "none"

\* Objects main() has not constructed yet.
NoManager == [constructed |-> FALSE]
NoSolution == [solved |-> FALSE]
NoRandomizer == -1

-----------------------------------------------------------------------------
(* Pseudo-random generators.  A generator is a deterministic stream fixed  *)
(* by its seed; the seed is a fixed value when the deterministic-seed flag *)
(* is set and any value otherwise.  The stream is a small linear          *)
(* congruential generator standing for std::mt19937; the seeds are chosen  *)
(* so that the draws reach both ends of their ranges.                      *)

RngModulus == 1000003
RngMultiplier == 1021
RngIncrement == 1

DeterministicSeed == 7777

Seeds == {0, 980, 981, 68399}

GetSeed(deterministic) ==
    IF deterministic THEN {DeterministicSeed} ELSE Seeds

RngNext(r) == (r * RngMultiplier + RngIncrement) % RngModulus

\* absl::Uniform<int32_t>(gen, lo, hi): a value of the half-open [lo, hi).
Uniform(r, lo, hi) == lo + (r % (hi - lo))

-----------------------------------------------------------------------------
(* Flags.                                                                  *)

SoftCosts == {100, 5000}

FlagSets ==
    [vrp_orders : -1 .. MaxOrders,
     vrp_vehicles : -1 .. MaxVehicles,
     vrp_vehicle_hard_capacity : 0 .. MaxCap,
     vrp_vehicle_soft_capacity : 0 .. MaxCap,
     vrp_vehicle_soft_capacity_cost : SoftCosts,
     vrp_use_deterministic_random_seed : BOOLEAN,
     vrp_use_same_vehicle_costs : BOOLEAN,
     routing_search_parameters_ok : BOOLEAN]

\* FlagCheck with the capacity check written CHECK_LE: equal capacities pass.
FlagCheckLE(f) ==
    IF ~(0 < f.vrp_orders) THEN "instance_size"
    ELSE IF ~(0 < f.vrp_vehicles) THEN "fleet_size"
    ELSE IF f.vrp_vehicle_hard_capacity > 0
            /\ f.vrp_vehicle_soft_capacity > 0
            /\ ~(f.vrp_vehicle_soft_capacity <= f.vrp_vehicle_hard_capacity)
         THEN "capacity"
    ELSE None

\* The three CHECKs at the top of main(); the message of the first that
\* fails, or None.
FlagCheck(f) ==
    IF ~(0 < f.vrp_orders) THEN "instance_size"
    ELSE IF ~(0 < f.vrp_vehicles) THEN "fleet_size"
    ELSE IF f.vrp_vehicle_hard_capacity > 0
            /\ f.vrp_vehicle_soft_capacity > 0
            /\ ~(f.vrp_vehicle_soft_capacity < f.vrp_vehicle_hard_capacity)
         THEN "capacity"
    ELSE None

FlagErrors == {"instance_size", "fleet_size", "capacity"}

-----------------------------------------------------------------------------
(* RoutingIndexManager with a single depot: the nodes keep their numbers   *)
(* as indices, vehicle 0 starts at the depot's index, the other starts and *)
(* all the ends get fresh indices after the nodes.                         *)

NewManager(num_nodes, num_vehicles, depot) ==
    [num_nodes |-> num_nodes, num_vehicles |-> num_vehicles, depot |-> depot]

NodeToIndex(n) == n

IndexToNode(i) == IF i < manager.num_nodes THEN i ELSE manager.depot

Start(v) == IF v = 0 THEN manager.depot ELSE manager.num_nodes + v - 1

End(v) == manager.num_nodes + manager.num_vehicles - 1 + v

Orders == 1 .. (manager.num_nodes - 1)

Vehicles == 0 .. (manager.num_vehicles - 1)

-----------------------------------------------------------------------------
(* Initial state: the flags are whatever the command line gave.            *)

InitWith(f) ==
    /\ flags = f
    /\ pc = "check_flags"
    /\ fatal = None
    /\ manager = NoManager
    /\ locations = 0
    /\ arc_cost = None
    /\ demand = <<>>
    /\ dims = <<>>
    /\ soft_bounds = <<>>
    /\ randomizer = NoRandomizer
    /\ windows = <<>>
    /\ disjunctions = <<>>
    /\ same_vehicle = <<>>
    /\ solution = NoSolution
    /\ output = None
    /\ steps = <<>>

Init == \E f \in FlagSets : InitWith(f)

-----------------------------------------------------------------------------
(* main(), lines 77-86.                                                    *)

CheckFlags ==
    /\ pc = "check_flags"
    /\ LET msg == FlagCheck(flags) IN
         IF msg # None
         THEN /\ pc' = "fatal"
              /\ fatal' = msg
         ELSE /\ pc' = "manager"
              /\ fatal' = fatal
    /\ UNCHANGED <<flags, model_vars, randomizer, solution, output, steps>>

(* lines 91-94 *)
BuildManager ==
    /\ pc = "manager"
    /\ manager' = NewManager(flags.vrp_orders + 1, flags.vrp_vehicles, kDepot)
    /\ pc' = "locations"
    /\ UNCHANGED <<flags, fatal, locations, arc_cost, demand, dims, soft_bounds,
                   randomizer, windows, disjunctions, same_vehicle,
                   solution, output, steps>>

(* lines 100-105: one location per node, the depot included. *)
RECURSIVE LocationLoop(_, _)
LocationLoop(location, count) ==
    IF location <= flags.vrp_orders
    THEN LocationLoop(location + 1, count + 1)
    ELSE count

AddLocations ==
    /\ pc = "locations"
    /\ locations' = LocationLoop(0, locations)
    /\ pc' = "cost"
    /\ UNCHANGED <<flags, fatal, manager, arc_cost, demand, dims, soft_bounds,
                   randomizer, windows, disjunctions, same_vehicle,
                   solution, output, steps>>

(* lines 108-113 *)
SetArcCost ==
    /\ pc = "cost"
    /\ arc_cost' = "ManhattanDistance"
    /\ steps' = Append(steps, "Costed")
    /\ pc' = "demand"
    /\ UNCHANGED <<flags, fatal, manager, locations, demand, dims, soft_bounds,
                   randomizer, windows, disjunctions, same_vehicle,
                   solution, output>>

(* RandomDemand::Initialize: one demand per node, drawn from the generator *)
(* in a fixed positive range, zero at the depot.                           *)
RECURSIVE DemandLoop(_, _, _, _)
DemandLoop(node, r, d, num_nodes) ==
    IF node < num_nodes
    THEN DemandLoop(node + 1, RngNext(r),
                    Append(d, IF node = kDepot THEN 0
                              ELSE Uniform(r, 1, MaxDemand + 1)),
                    num_nodes)
    ELSE d

\* demand_ is indexed by node, from 0: node n is element n + 1 here.
DemandOf(n) == demand[n + 1]

\* RandomDemand::Demand(from, to): the demand of the destination.
Demand(from, to) == DemandOf(to)

(* lines 117-119 *)
InitDemand ==
    /\ pc = "demand"
    /\ \E seed \in GetSeed(flags.vrp_use_deterministic_random_seed) :
         demand' = DemandLoop(0, seed, <<>>, manager.num_nodes)
    /\ pc' = "capacity"
    /\ UNCHANGED <<flags, fatal, manager, locations, arc_cost, dims,
                   soft_bounds, randomizer, windows, disjunctions,
                   same_vehicle, solution, output, steps>>

\* CapacityDimension with the soft capacity added to the hard bound.
CapacityDimensionPlusSoft(f) ==
    [name |-> "Capacity",
     transit |-> "Demand",
     slack_max |-> kNullCapacitySlack,
     capacity |-> f.vrp_vehicle_hard_capacity + f.vrp_vehicle_soft_capacity,
     fix_start_cumul_to_zero |-> TRUE]

(* lines 120-126: the arguments of AddDimension for Capacity. *)
CapacityDimension(f) ==
    [name |-> "Capacity",
     transit |-> "Demand",
     slack_max |-> kNullCapacitySlack,
     capacity |-> f.vrp_vehicle_hard_capacity,
     fix_start_cumul_to_zero |-> TRUE]

(* lines 131-136: one soft upper bound per vehicle, on its route end. *)
RECURSIVE SoftBoundLoop(_, _, _)
SoftBoundLoop(vehicle, sb, f) ==
    IF vehicle < f.vrp_vehicles
    THEN SoftBoundLoop(vehicle + 1,
                       Append(sb, [index |-> End(vehicle),
                                   bound |-> f.vrp_vehicle_soft_capacity,
                                   coefficient |->
                                       f.vrp_vehicle_soft_capacity_cost]),
                       f)
    ELSE sb

(* lines 115-136 *)
AddCapacityDimension ==
    /\ pc = "capacity"
    /\ dims' = Append(dims, CapacityDimension(flags))
    /\ soft_bounds' = SoftBoundLoop(0, soft_bounds, flags)
    /\ steps' = Append(steps, "Capacity")
    /\ pc' = "time"
    /\ UNCHANGED <<flags, fatal, manager, locations, arc_cost, demand,
                   randomizer, windows, disjunctions, same_vehicle,
                   solution, output>>

(* lines 149-153: the arguments of AddDimension for Time. *)
TimeDimension ==
    [name |-> "Time",
     transit |-> "ServiceTimePlusTransition",
     slack_max |-> kHorizon,
     capacity |-> kHorizon,
     fix_start_cumul_to_zero |-> TRUE]

(* lines 138-154 *)
AddTimeDimension ==
    /\ pc = "time"
    /\ dims' = Append(dims, TimeDimension)
    /\ steps' = Append(steps, "Time")
    /\ pc' = "windows"
    /\ UNCHANGED <<flags, fatal, manager, locations, arc_cost, demand,
                   soft_bounds, randomizer, windows, disjunctions,
                   same_vehicle, solution, output>>

\* DrawStart over the whole horizon, the window duration not subtracted.
DrawStartWholeDay(r) == Uniform(r, 0, kHorizon)

(* lines 161-162: the start of one order's window. *)
DrawStart(r) == Uniform(r, 0, kHorizon - kTWDuration)

(* line 163: the range given to SetRange. *)
WindowFrom(start) == [lo |-> start, hi |-> start + kTWDuration]

(* lines 160-164: windows is keyed by the index given to CumulVar. *)
RECURSIVE WindowLoop(_, _, _, _)
WindowLoop(order, r, w, num_nodes) ==
    IF order < num_nodes
    THEN WindowLoop(order + 1, RngNext(r),
                    w @@ (order :> WindowFrom(DrawStart(r))), num_nodes)
    ELSE [rng |-> r, windows |-> w]

(* lines 156-164 *)
SetTimeWindows ==
    /\ pc = "windows"
    /\ \E seed \in GetSeed(flags.vrp_use_deterministic_random_seed) :
         LET end == WindowLoop(1, seed, windows, manager.num_nodes) IN
           /\ windows' = end.windows
           /\ randomizer' = end.rng
    /\ steps' = Append(steps, "Windowed")
    /\ pc' = "disjunctions"
    /\ UNCHANGED <<flags, fatal, manager, locations, arc_cost, demand, dims,
                   soft_bounds, disjunctions, same_vehicle, solution, output>>

\* DisjunctionLoop stopping one order early.
RECURSIVE DisjunctionLoopSkipLast(_, _, _)
DisjunctionLoopSkipLast(order, dj, num_nodes) ==
    IF order < num_nodes - 1
    THEN DisjunctionLoopSkipLast(order + 1,
                                 Append(dj, [indices |-> <<NodeToIndex(order)>>,
                                             penalty |-> kPenalty]),
                                 num_nodes)
    ELSE dj

(* lines 169-173 *)
RECURSIVE DisjunctionLoop(_, _, _)
DisjunctionLoop(order, dj, num_nodes) ==
    IF order < num_nodes
    THEN DisjunctionLoop(order + 1,
                         Append(dj, [indices |-> <<NodeToIndex(order)>>,
                                     penalty |-> kPenalty]),
                         num_nodes)
    ELSE dj

(* lines 166-173 *)
AddDisjunctions ==
    /\ pc = "disjunctions"
    /\ disjunctions' =
         DisjunctionLoop(kFirstNodeAfterDepot, disjunctions, manager.num_nodes)
    /\ steps' = Append(steps, "Disjoined")
    /\ pc' = "groups"
    /\ UNCHANGED <<flags, fatal, manager, locations, arc_cost, demand, dims,
                   soft_bounds, randomizer, windows, same_vehicle,
                   solution, output>>

NewGroup(group) == [indices |-> group, cost |-> kSameVehicleCost]

(* lines 178-185: sv is the constraints added so far, group the local vector. *)
RECURSIVE GroupLoop(_, _, _, _)
GroupLoop(order, sv, group, num_nodes) ==
    IF order < num_nodes
    THEN LET pushed == Append(group, NodeToIndex(order)) IN
           IF Len(pushed) = kMaxNodesPerGroup
           THEN GroupLoop(order + 1, Append(sv, NewGroup(pushed)), <<>>,
                          num_nodes)
           ELSE GroupLoop(order + 1, sv, pushed, num_nodes)
    ELSE [same_vehicle |-> sv, group |-> group]

\* FlushGroup without the flush: the last, incomplete group is lost.
FlushGroupDropped(end) == end.same_vehicle

(* lines 186-188 *)
FlushGroup(end) ==
    IF end.group # <<>>
    THEN Append(end.same_vehicle, NewGroup(end.group))
    ELSE end.same_vehicle

\* AddSameVehicleGroups without the test of the flag.
AddSameVehicleGroupsAlways ==
    /\ pc = "groups"
    /\ same_vehicle' =
         FlushGroup(GroupLoop(kFirstNodeAfterDepot, same_vehicle,
                              <<>>, manager.num_nodes))
    /\ steps' = Append(steps, "Grouped")
    /\ pc' = "parameters"
    /\ UNCHANGED <<flags, fatal, manager, locations, arc_cost, demand, dims,
                   soft_bounds, randomizer, windows, disjunctions,
                   solution, output>>

(* lines 175-189 *)
AddSameVehicleGroups ==
    /\ pc = "groups"
    /\ IF flags.vrp_use_same_vehicle_costs
       THEN /\ same_vehicle' =
                 FlushGroup(GroupLoop(kFirstNodeAfterDepot, same_vehicle,
                                      <<>>, manager.num_nodes))
            /\ steps' = Append(steps, "Grouped")
       ELSE UNCHANGED <<same_vehicle, steps>>
    /\ pc' = "parameters"
    /\ UNCHANGED <<flags, fatal, manager, locations, arc_cost, demand, dims,
                   soft_bounds, randomizer, windows, disjunctions,
                   solution, output>>

\* ParseCheck with the result of MergeFromString not CHECKed.
ParseCheckIgnored(f) == None

(* lines 192-194: CHECK(MergeFromString(...)). *)
ParseCheck(f) == IF f.routing_search_parameters_ok THEN None ELSE "parameters"

ParseParameters ==
    /\ pc = "parameters"
    /\ LET msg == ParseCheck(flags) IN
         IF msg # None
         THEN /\ pc' = "fatal"
              /\ fatal' = msg
         ELSE /\ pc' = "solve"
              /\ fatal' = fatal
    /\ UNCHANGED <<flags, model_vars, randomizer, solution, output, steps>>

-----------------------------------------------------------------------------
(* The routing solver, as far as the sample relies on it: a solution is    *)
(* one route per vehicle, each a sequence of distinct order indices, no    *)
(* index on two routes.  Along a route the cumul of a dimension starts at  *)
(* 0 (fix_start_cumul_to_zero) and grows by the transit of each arc; every *)
(* cumul lies in [0, capacity].  An index of no disjunction must be        *)
(* visited; a disjunction none of whose indices is visited costs its       *)
(* penalty; a soft upper bound costs coefficient x excess.  Only the       *)
(* Capacity dimension is evaluated: the Time dimension and the windows     *)
(* restrict the solutions further.                                         *)

NullSolution == [solved |-> TRUE, found |-> FALSE]

FoundSolution(routes) == [solved |-> TRUE, found |-> TRUE, routes |-> routes]

Dimension(name) ==
    LET found == {k \in 1 .. Len(dims) : dims[k].name = name} IN
      dims[CHOOSE k \in found : \A j \in found : k <= j]

HasDimension(name) == \E k \in 1 .. Len(dims) : dims[k].name = name

\* The transit callback registered for Capacity (lines 121-124).
CapacityTransit(i, j) == Demand(IndexToNode(i), IndexToNode(j))

\* The indices a vehicle passes: its start, its orders, its end.
Path(v, route) == <<Start(v)>> \o route \o <<End(v)>>

RECURSIVE CumulAt(_, _)
CumulAt(path, k) ==
    IF k = 1 THEN 0
    ELSE CumulAt(path, k - 1) + CapacityTransit(path[k - 1], path[k])

\* The Capacity cumuls along vehicle v's route, start and end included.
RouteCumuls(v, route) ==
    LET path == Path(v, route) IN [k \in 1 .. Len(path) |-> CumulAt(path, k)]

\* The Capacity cumul at the end of vehicle v's route.
EndCumul(v, route) == CumulAt(Path(v, route), Len(route) + 2)

RouteFeasible(v, route) ==
    LET c == RouteCumuls(v, route) IN
      \A k \in 1 .. Len(c) : 0 <= c[k] /\ c[k] <= Dimension("Capacity").capacity

RECURSIVE RoutesFrom(_, _, _)
RoutesFrom(v, route, avail) ==
    {route} \cup
    UNION {RoutesFrom(v, Append(route, n), avail \ {n}) :
             n \in {m \in avail : RouteFeasible(v, Append(route, m))}}

SeqRange(s) == {s[k] : k \in 1 .. Len(s)}

RECURSIVE RouteSets(_, _)
RouteSets(v, avail) ==
    IF v = manager.num_vehicles THEN {<<>>}
    ELSE UNION {{<<r>> \o rest : rest \in RouteSets(v + 1, avail \ SeqRange(r))} :
                  r \in {q \in RoutesFrom(v, <<>>, avail) : RouteFeasible(v, q)}}

Visited(routes) == UNION {SeqRange(routes[k]) : k \in 1 .. Len(routes)}

InDisjunction(i) ==
    \E k \in 1 .. Len(disjunctions) : i \in SeqRange(disjunctions[k].indices)

DisjunctionsRespected(routes) ==
    /\ \A i \in Orders : ~InDisjunction(i) => i \in Visited(routes)
    /\ \A k \in 1 .. Len(disjunctions) :
         Cardinality(SeqRange(disjunctions[k].indices) \cap Visited(routes)) <= 1

Solutions ==
    {routes \in RouteSets(0, Orders) : DisjunctionsRespected(routes)}

RECURSIVE SumOver(_, _)
SumOver(s, k) == IF k = 0 THEN 0 ELSE SumOver(s, k - 1) + s[k]

\* The cost of the soft upper bounds set on the end of vehicle v's route.
OverageCost(v, route) ==
    LET cost == [k \in 1 .. Len(soft_bounds) |->
                   IF soft_bounds[k].index = End(v)
                      /\ EndCumul(v, route) > soft_bounds[k].bound
                   THEN (EndCumul(v, route) - soft_bounds[k].bound)
                        * soft_bounds[k].coefficient
                   ELSE 0]
    IN SumOver(cost, Len(cost))

\* The penalties of the disjunctions with no visited index.
PenaltyCost(routes) ==
    LET cost == [k \in 1 .. Len(disjunctions) |->
                   IF SeqRange(disjunctions[k].indices) \cap Visited(routes) = {}
                   THEN disjunctions[k].penalty
                   ELSE 0]
    IN SumOver(cost, Len(cost))

(* line 195: a solution of the configured model, or nullptr. *)
Solve ==
    /\ pc = "solve"
    /\ \/ solution' = NullSolution
       \/ \E routes \in Solutions : solution' = FoundSolution(routes)
    /\ steps' = Append(steps, "Sealed")
    /\ pc' = "report"
    /\ UNCHANGED <<flags, fatal, model_vars, randomizer, output>>

(* lines 196-205 *)
Report ==
    /\ pc = "report"
    /\ output' = IF solution.found THEN "plan" ELSE "no_solution"
    /\ pc' = "done"
    /\ UNCHANGED <<flags, fatal, model_vars, randomizer, solution, steps>>

Next ==
    \/ CheckFlags
    \/ BuildManager
    \/ AddLocations
    \/ SetArcCost
    \/ InitDemand
    \/ AddCapacityDimension
    \/ AddTimeDimension
    \/ SetTimeWindows
    \/ AddDisjunctions
    \/ AddSameVehicleGroups
    \/ ParseParameters
    \/ Solve
    \/ Report

Spec == Init /\ [][Next]_vars

(* The same program on larger instances, to see several same-vehicle       *)
(* groups: one vehicle, at most one unit of hard capacity.                 *)
GroupFlagSets ==
    [vrp_orders : 1 .. MaxGroupOrders,
     vrp_vehicles : {1},
     vrp_vehicle_hard_capacity : {0, 1},
     vrp_vehicle_soft_capacity : {0},
     vrp_vehicle_soft_capacity_cost : SoftCosts,
     vrp_use_deterministic_random_seed : BOOLEAN,
     vrp_use_same_vehicle_costs : BOOLEAN,
     routing_search_parameters_ok : BOOLEAN]

InitGroups == \E f \in GroupFlagSets : InitWith(f)

SpecGroups == InitGroups /\ [][Next]_vars

-----------------------------------------------------------------------------
(* Vocabulary of the properties.                                           *)

Done(step) == step \in SeqRange(steps)

NothingConstructed ==
    /\ manager = NoManager
    /\ locations = 0
    /\ arc_cost = None
    /\ demand = <<>>
    /\ dims = <<>>
    /\ soft_bounds = <<>>
    /\ windows = <<>>
    /\ disjunctions = <<>>
    /\ same_vehicle = <<>>

BadFlags(f) ==
    \/ f.vrp_orders <= 0
    \/ f.vrp_vehicles <= 0
    \/ /\ f.vrp_vehicle_hard_capacity > 0
       /\ f.vrp_vehicle_soft_capacity > 0
       /\ f.vrp_vehicle_soft_capacity >= f.vrp_vehicle_hard_capacity

\* Every sequence of distinct elements of S.
RECURSIVE Arrangements(_)
Arrangements(S) ==
    {<<>>} \cup UNION {{<<n>> \o rest : rest \in Arrangements(S \ {n})} : n \in S}

Occurrences(routes, i) ==
    Cardinality({kj \in (1 .. Len(routes)) \X (1 .. MaxGroupOrders + 1) :
                   /\ kj[2] <= Len(routes[kj[1]])
                   /\ routes[kj[1]][kj[2]] = i})

-----------------------------------------------------------------------------
(* C1: bad flags (orders <= 0, vehicles <= 0, or soft >= hard with both    *)
(* enabled) abort at the flag checks and the run never reaches the solve   *)
(* step; every other combination passes the three checks and the run goes  *)
(* on to construct the model.                                              *)
C1_FlagChecks ==
    pc # "check_flags" =>
      /\ BadFlags(flags) =>
           /\ pc = "fatal"
           /\ fatal \in FlagErrors
           /\ ~solution.solved
           /\ ~Done("Sealed")
      /\ ~BadFlags(flags) =>
           /\ fatal \notin FlagErrors
           /\ pc = "manager" \/ manager # NoManager

C1_Witness ==
    /\ pc = "fatal"
    /\ fatal = "capacity"
    /\ flags.vrp_vehicle_soft_capacity = flags.vrp_vehicle_hard_capacity

(* C2 as stated: whenever the run aborts with a configuration error,       *)
(* nothing of the model has been constructed.                              *)
C2_AllErrorsBeforeConstruction ==
    pc = "fatal" => NothingConstructed

(* C2 amended: a flag error aborts before anything is constructed; a       *)
(* malformed search-parameter text aborts after the whole model has been   *)
(* constructed; in both cases the solver is never called.                  *)
C2_ErrorsBeforeSolve ==
    /\ pc = "fatal" =>
         /\ ~solution.solved
         /\ ~Done("Sealed")
         /\ fatal \in FlagErrors => NothingConstructed
         /\ fatal = "parameters" =>
              /\ manager # NoManager
              /\ Len(dims) = 2
              /\ Len(disjunctions) = flags.vrp_orders
              /\ Done("Disjoined")
    /\ ~flags.routing_search_parameters_ok => ~solution.solved

C2_Witness ==
    /\ pc = "fatal"
    /\ fatal = "parameters"
    /\ Len(dims) = 2
    /\ Len(disjunctions) > 0

(* C3: the Capacity dimension has the destination's demand as transit,     *)
(* slack 0, start cumul fixed to 0, and as upper bound the hard capacity   *)
(* when it is > 0 and a bound that forbids no load when it is 0.           *)
C3_CapacityDeclaration ==
    HasDimension("Capacity") =>
      LET d == Dimension("Capacity") IN
        /\ d.transit = "Demand"
        /\ \A i, j \in 0 .. End(manager.num_vehicles - 1) :
             CapacityTransit(i, j) = DemandOf(IndexToNode(j))
        /\ d.slack_max = 0
        /\ d.fix_start_cumul_to_zero
        /\ flags.vrp_vehicle_hard_capacity > 0 =>
             d.capacity = flags.vrp_vehicle_hard_capacity
        /\ flags.vrp_vehicle_hard_capacity = 0 =>
             /\ d.capacity >= SumOver(demand, Len(demand))
             /\ d.capacity > 0

(* C4: after configuration a vehicle has a soft upper bound on its route   *)
(* end iff soft capacity > 0, then with the soft capacity as threshold and *)
(* the per-unit cost as coefficient; with soft capacity 0 no load costs    *)
(* anything.                                                               *)
C4_SoftBoundIffEnabled ==
    Done("Capacity") =>
      \A v \in Vehicles :
        LET mine == {k \in 1 .. Len(soft_bounds) : soft_bounds[k].index = End(v)}
        IN /\ (mine # {}) <=> (flags.vrp_vehicle_soft_capacity > 0)
           /\ \A k \in mine :
                /\ soft_bounds[k].bound = flags.vrp_vehicle_soft_capacity
                /\ soft_bounds[k].coefficient =
                     flags.vrp_vehicle_soft_capacity_cost
           /\ flags.vrp_vehicle_soft_capacity = 0 =>
                \A route \in Arrangements(Orders) : OverageCost(v, route) = 0

(* C5: with soft capacity > 0 and hard capacity disabled or above it, a    *)
(* route ending with a load L above the soft capacity is legal and costs   *)
(* exactly (L - soft) x unit cost; a route with L <= soft costs 0.         *)
C5_OverageLegalAndPriced ==
    (/\ pc = "solve"
     /\ flags.vrp_vehicle_soft_capacity > 0
     /\ \/ flags.vrp_vehicle_hard_capacity = 0
        \/ flags.vrp_vehicle_soft_capacity < flags.vrp_vehicle_hard_capacity)
    => \A v \in Vehicles : \A route \in Arrangements(Orders) :
         LET L == EndCumul(v, route) IN
           /\ (/\ L > flags.vrp_vehicle_soft_capacity
               /\ flags.vrp_vehicle_hard_capacity > 0 =>
                    L <= flags.vrp_vehicle_hard_capacity)
              => /\ \E routes \in Solutions : routes[v + 1] = route
                 /\ OverageCost(v, route) =
                      (L - flags.vrp_vehicle_soft_capacity)
                      * flags.vrp_vehicle_soft_capacity_cost
           /\ L <= flags.vrp_vehicle_soft_capacity => OverageCost(v, route) = 0

(* C6: with hard capacity > 0, in every solution the solver returns the    *)
(* Capacity cumul starts at 0, grows by the demand of each visited node    *)
(* and never exceeds the hard capacity.                                    *)
C6_HardCapacityRespected ==
    (solution.solved /\ solution.found /\ flags.vrp_vehicle_hard_capacity > 0)
    => \A v \in Vehicles :
         LET route == solution.routes[v + 1]
             c == RouteCumuls(v, route)
         IN /\ c[1] = 0
            /\ \A k \in 1 .. Len(route) :
                 c[k + 1] = c[k] + DemandOf(IndexToNode(route[k]))
            /\ c[Len(route) + 2] = c[Len(route) + 1]
            /\ \A k \in 1 .. Len(c) : c[k] <= flags.vrp_vehicle_hard_capacity

C6_Witness ==
    /\ solution.solved
    /\ solution.found
    /\ flags.vrp_vehicle_hard_capacity > 0
    /\ \E v \in Vehicles :
         /\ Len(solution.routes[v + 1]) >= 2
         /\ EndCumul(v, solution.routes[v + 1]) = flags.vrp_vehicle_hard_capacity

(* C7: every order's time window has start >= 0, end <= 86400 and width    *)
(* exactly 18000; the depot and the route starts and ends get no window.   *)
C7_TimeWindows ==
    Done("Windowed") =>
      /\ DOMAIN windows = {NodeToIndex(n) : n \in Orders}
      /\ \A n \in Orders :
           LET w == windows[NodeToIndex(n)] IN
             /\ w.lo >= 0
             /\ w.hi <= 86400
             /\ w.hi - w.lo = 18000
             /\ w.lo < w.hi

C7_Witness ==
    /\ Done("Windowed")
    /\ \E n \in Orders : windows[NodeToIndex(n)].hi = 86399

(* C8: every order is in exactly one disjunction, the singleton of its     *)
(* index with penalty 10,000,000, and the depot in none; a returned        *)
(* solution visits each order at most once and pays exactly one penalty    *)
(* per unvisited order.                                                    *)
C8_SingletonDisjunctions ==
    Done("Disjoined") =>
      /\ \A n \in Orders :
           LET mine == {k \in 1 .. Len(disjunctions) :
                          NodeToIndex(n) \in SeqRange(disjunctions[k].indices)}
           IN /\ Cardinality(mine) = 1
              /\ \A k \in mine :
                   /\ disjunctions[k].indices = <<NodeToIndex(n)>>
                   /\ disjunctions[k].penalty = 10000000
      /\ \A i \in {NodeToIndex(kDepot)}
                  \cup {Start(v) : v \in Vehicles} \cup {End(v) : v \in Vehicles} :
           ~InDisjunction(i)
      /\ (solution.solved /\ solution.found) =>
           /\ \A n \in Orders :
                Occurrences(solution.routes, NodeToIndex(n)) <= 1
           /\ PenaltyCost(solution.routes) =
                10000000 * Cardinality({n \in Orders :
                    Occurrences(solution.routes, NodeToIndex(n)) = 0})

C8_Witness ==
    /\ solution.solved
    /\ solution.found
    /\ \E n \in Orders : Occurrences(solution.routes, NodeToIndex(n)) = 1
    /\ \E n \in Orders : Occurrences(solution.routes, NodeToIndex(n)) = 0
    /\ PenaltyCost(solution.routes) = 10000000

(* C9: the configuration steps happen once each, in the order Costed,     *)
(* Capacity, Time, Windowed, Disjoined, Grouped (only with the grouping    *)
(* flag), Sealed; no dimension is declared twice; nothing of the model     *)
(* changes once the solver has been called.                                *)
ExpectedSteps ==
    <<"Costed", "Capacity", "Time", "Windowed", "Disjoined">>
    \o (IF flags.vrp_use_same_vehicle_costs THEN <<"Grouped">> ELSE <<>>)
    \o <<"Sealed">>

StepTaken ==
    /\ Len(steps) < Len(ExpectedSteps)
    /\ steps' = Append(steps, ExpectedSteps[Len(steps) + 1])

\* What the model holds after each step, and not before it.
StepEffects ==
    /\ Done("Costed") <=> arc_cost # None
    /\ Done("Capacity") <=> HasDimension("Capacity")
    /\ Done("Time") <=> HasDimension("Time")
    /\ Done("Windowed") <=> windows # <<>>
    /\ Done("Disjoined") <=> disjunctions # <<>>
    /\ Done("Grouped") <=> same_vehicle # <<>>
    /\ Done("Sealed") <=> solution.solved
    /\ \A j, k \in 1 .. Len(dims) : dims[j].name = dims[k].name => j = k

C9_StepOrder ==
    [][/\ steps' = steps \/ StepTaken
       /\ steps' = steps => UNCHANGED routing_vars
       /\ StepEffects'
       /\ Done("Sealed") => UNCHANGED <<model_vars, solution>>
       /\ pc' = "done" => steps' = ExpectedSteps]_vars

C9_Witness ==
    /\ pc = "done"
    /\ steps = <<"Costed", "Capacity", "Time", "Windowed", "Disjoined",
                 "Grouped", "Sealed">>

(* C10: with the grouping flag the same-vehicle constraints partition the  *)
(* orders 1..N into consecutive groups {1..10}, {11..20}, ...: ceil(N/10)  *)
(* groups, all of 10 nodes except possibly the last, which has 1 to 10,    *)
(* each with cost 1000; without the flag there is none.                    *)
C10_ConsecutiveGroups ==
    pc \in {"parameters", "solve", "report", "done"} =>
      LET N == manager.num_nodes - 1
          G == Len(same_vehicle)
      IN IF flags.vrp_use_same_vehicle_costs
         THEN /\ G = (N + 9) \div 10
              /\ \A g \in 1 .. G :
                   LET first == 10 * (g - 1) + 1
                       last == IF 10 * g < N THEN 10 * g ELSE N
                       group == same_vehicle[g].indices
                   IN /\ Len(group) = last - first + 1
                      /\ \A k \in 1 .. Len(group) :
                           group[k] = NodeToIndex(first + k - 1)
                      /\ Len(group) >= 1 /\ Len(group) <= 10
                      /\ g < G => Len(group) = 10
                      /\ same_vehicle[g].cost = 1000
              /\ \A n \in 1 .. N :
                   Cardinality({g \in 1 .. G :
                      NodeToIndex(n) \in SeqRange(same_vehicle[g].indices)}) = 1
         ELSE same_vehicle = <<>>

C10_Witness ==
    /\ pc = "done"
    /\ flags.vrp_use_same_vehicle_costs
    /\ Len(same_vehicle) = 3
    /\ Len(same_vehicle[2].indices) = 10
    /\ Len(same_vehicle[3].indices) = 1

====
